---- MODULE Spec2Model ----
(***************************************************************************)
(* The Vi edit mode of reedline (src/edit_mode/vi/mod.rs): the dispatcher  *)
(* Vi::parse_event over the state of a Vi value, with the sequence parser  *)
(* (vi/parser.rs, vi/command.rs, vi/motion.rs) and the keybinding table    *)
(* (edit_mode/keybindings.rs) modelled from their specification.           *)
(***************************************************************************)
EXTENDS Naturals, Sequences, FiniteSets, TLC

VARIABLES
    mode,               \* Vi::mode
    cache,              \* Vi::cache
    seq_completed,      \* Vi::seq_completed
    last_char_search,   \* Vi::last_char_search, <<>> for None and <<s>> for Some(s)
    normal_keybindings, \* Vi::normal_keybindings
    insert_keybindings, \* Vi::insert_keybindings
    ev,                 \* the raw event of the last parse_event call
    out,                \* the ReedlineEvent the last parse_event call returned
    arm,                \* the match arm (and branch) the last call took
    res,                \* the parser's classification in the last call
    pre                 \* mode, cache, flag and memory before the last call

vars == <<mode, cache, seq_completed, last_char_search, normal_keybindings,
          insert_keybindings, ev, out, arm, res, pre>>

\* the fields of the Vi value that parse_event may write
Fields ==
    [mode |-> mode, cache |-> cache, seq_completed |-> seq_completed,
     last_char_search |-> last_char_search]

(* ------------------------------ bounds -------------------------------- *)

\* The longest cache the model lets a pending sequence grow to.
MaxCache == 3

(* --------------------------- characters ------------------------------- *)

LowerLetters == <<"f", "b", "d", "i", "q", "e">>
UpperLetters == <<"F", "B", "D", "I", "Q", "E">>
Symbols == {"$", ";", "2"}
Chars == {LowerLetters[k] : k \in DOMAIN LowerLetters}
         \cup {UpperLetters[k] : k \in DOMAIN UpperLetters} \cup Symbols

\* char::to_ascii_lowercase
to_ascii_lowercase(c) ==
    IF \E k \in DOMAIN UpperLetters : UpperLetters[k] = c
    THEN LowerLetters[CHOOSE k \in DOMAIN UpperLetters : UpperLetters[k] = c]
    ELSE c

\* char::to_ascii_uppercase
to_ascii_uppercase(c) ==
    IF \E k \in DOMAIN LowerLetters : LowerLetters[k] = c
    THEN UpperLetters[CHOOSE k \in DOMAIN LowerLetters : LowerLetters[k] = c]
    ELSE c

(* ------------------------- keys and modifiers ------------------------- *)

\* crossterm's KeyModifiers, a set of modifier bits
NONE == {}
SHIFT == {"SHIFT"}
CONTROL == {"CONTROL"}
ALT == {"ALT"}

\* crossterm's KeyCode
Char(c) == [kind |-> "Char", c |-> c]
Esc == [kind |-> "Esc", c |-> ""]
Enter == [kind |-> "Enter", c |-> ""]
Left == [kind |-> "Left", c |-> ""]

\* the character keys delivered: bare and shifted characters, a character
\* delivered in upper case with no modifier, and characters with Control,
\* Control+Alt and Control+Alt+Shift held
CharKeys ==
    ({NONE} \X {"f", "d", "e", "q", "i", "b", "$", ";", "2", "E", "F"})
    \cup ({SHIFT} \X {"F", "B", "I", "$"})
    \cup ({CONTROL} \X {"d", "e"})
    \cup {<<CONTROL \cup ALT, "q">>, <<CONTROL \cup ALT \cup SHIFT, "B">>}

\* the other keys delivered that are not a bare Escape or a bare Enter
OtherKeys == {<<NONE, Left>>, <<SHIFT, Enter>>, <<CONTROL, Esc>>}

\* crossterm's Event
RawEvent(kind) ==
    [kind |-> kind, modifiers |-> NONE, code |-> [kind |-> "", c |-> ""],
     width |-> 0, height |-> 0, body |-> <<>>]
Key(modifiers, code) ==
    [RawEvent("Key") EXCEPT !.modifiers = modifiers, !.code = code]
Resize(width, height) ==
    [RawEvent("Resize") EXCEPT !.width = width, !.height = height]
Paste(body) == [RawEvent("Paste") EXCEPT !.body = body]

(* --------------------------- output events ---------------------------- *)

\* ReedlineEvent and EditCommand values, all of one record shape
Node(tag) ==
    [tag |-> tag, c |-> "", n |-> 0, flag |-> FALSE, w |-> 0, h |-> 0,
     text |-> <<>>, sub |-> <<>>]
RNone == Node("None")
Edit(cmds) == [Node("Edit") EXCEPT !.sub = cmds]
Multiple(evs) == [Node("Multiple") EXCEPT !.sub = evs]
InsertChar(c) == [Node("InsertChar") EXCEPT !.c = c]
InsertString(text) == [Node("InsertString") EXCEPT !.text = text]
RResize(w, h) == [Node("Resize") EXCEPT !.w = w, !.h = h]

(* ------------------------- keybinding tables -------------------------- *)

\* Keybindings: a map from KeyCombination {modifier, key_code} to an event
KeyCombination(modifier, key_code) == [modifier |-> modifier, key_code |-> key_code]

\* Keybindings::find_binding: an exact match on the combination, or None
find_binding(table, modifier, key_code) ==
    IF KeyCombination(modifier, key_code) \in DOMAIN table
    THEN <<table[KeyCombination(modifier, key_code)]>>
    ELSE <<>>

\* The tables a Vi value is constructed with (Vi::default, Vi::new): the
\* defaults bind no bare or shifted character; the custom table adds the
\* bindings of the unit tests and some more.
DefaultNormalTable ==
    (KeyCombination(CONTROL, Char("d")) :> Node("CtrlD"))
    @@ (KeyCombination(NONE, Left) :> Node("Left"))
    @@ (KeyCombination(SHIFT, Enter) :> Node("Submit"))

CustomNormalTable ==
    DefaultNormalTable
    @@ (KeyCombination(NONE, Char("e")) :> Node("ClearScreen"))
    @@ (KeyCombination(SHIFT, Char("$")) :> Node("CtrlD"))
    @@ (KeyCombination(SHIFT, Char("B")) :> Edit(<<Node("MoveBigWordLeft")>>))
    @@ (KeyCombination(SHIFT, Char("i")) :> Node("Menu"))

NormalTables == {DefaultNormalTable, CustomNormalTable}

InsertTable ==
    (KeyCombination(CONTROL, Char("d")) :> Node("CtrlD"))
    @@ (KeyCombination(NONE, Left) :> Node("Left"))
    @@ (KeyCombination(CONTROL, Esc) :> Node("Menu"))
    @@ (KeyCombination(NONE, Char("E")) :> Node("ClearScreen"))
    @@ (KeyCombination(SHIFT, Char("i")) :> Node("HistoryHintComplete"))
    @@ (KeyCombination(SHIFT, Char("Q")) :> Node("CtrlC"))

InsertTables == {InsertTable}

(* ------------------------ the sequence parser ------------------------- *)

NonZeroDigits == {"2"}
Digits == NonZeroDigits
DigitValue(c) == CASE c = "2" -> 2 [] OTHER -> 0

\* the number of digits a count at the head of s has (0: no count)
RECURSIVE DigitRun(_)
DigitRun(s) ==
    IF s # <<>> /\ Head(s) \in Digits THEN 1 + DigitRun(Tail(s)) ELSE 0

RECURSIVE DecimalValue(_)
DecimalValue(s) ==
    IF s = <<>> THEN 0
    ELSE 10 * DecimalValue(SubSeq(s, 1, Len(s) - 1)) + DigitValue(s[Len(s)])

\* count?: one or more digits, the first of them nonzero
parse_number(s) ==
    LET k == IF s # <<>> /\ Head(s) \in NonZeroDigits THEN DigitRun(s) ELSE 0
    IN  [n |-> IF k = 0 THEN <<>> ELSE <<DecimalValue(SubSeq(s, 1, k))>>,
         rest |-> SubSeq(s, k + 1, Len(s))]

SimpleMotions == {"b", "B", "e", "E", "$"}
FindMotions == {"f", "F"}
Operators == {"d"}
ModeEntryCommands == {"i", "I"}
RepeatSearchCommands == {";"}

NoMotion(status) == [status |-> status, kind |-> "", c |-> ""]

\* motion: a character-wise motion, or f/F and one literal target character
parse_motion(s) ==
    IF s = <<>> THEN NoMotion("Incomplete")
    ELSE IF Head(s) \in SimpleMotions
    THEN [status |-> "Valid", kind |-> Head(s), c |-> ""]
    ELSE IF Head(s) \in FindMotions
    THEN IF Len(s) >= 2
         THEN [status |-> "Valid", kind |-> Head(s), c |-> s[2]]
         ELSE NoMotion("Incomplete")
    ELSE NoMotion("Invalid")

Parsed(class, multiplier, command, count, motion) ==
    [class |-> class, multiplier |-> multiplier, command |-> command,
     count |-> count, motion |-> motion]

\* parse: count? (operator (count? motion | operator) | motion
\*               | mode-entry-command | repeat-search-command)
parse(input) ==
    LET m == parse_number(input)
        s == m.rest
    IN  IF s = <<>> THEN Parsed("Incomplete", m.n, "", <<>>, NoMotion("Incomplete"))
        ELSE IF Head(s) \in Operators
        THEN LET t == Tail(s)
                 k == parse_number(t)
                 mo == parse_motion(k.rest)
             IN  IF t # <<>> /\ Head(t) = Head(s)
                 THEN Parsed("Complete", m.n, Head(s), <<>>,
                             [status |-> "Valid", kind |-> "Line", c |-> ""])
                 ELSE Parsed(CASE mo.status = "Valid" -> "Complete"
                               [] mo.status = "Incomplete" -> "Incomplete"
                               [] OTHER -> "Invalid",
                             m.n, Head(s), k.n, mo)
        ELSE IF Head(s) \in ModeEntryCommands \cup RepeatSearchCommands
        THEN Parsed("Complete", m.n, Head(s), <<>>, NoMotion("Incomplete"))
        ELSE LET mo == parse_motion(s)
             IN  Parsed(CASE mo.status = "Valid" -> "Complete"
                          [] mo.status = "Incomplete" -> "Incomplete"
                          [] OTHER -> "Invalid",
                        m.n, "", <<>>, mo)

\* ParsedViSequence::is_valid
is_valid(r) == r.class # "Invalid"

\* ParsedViSequence::is_complete
is_complete(r) == r.class = "Complete"

\* ParsedViSequence::enters_insert_mode
enters_insert_mode(r) == r.command \in ModeEntryCommands

(* ----------------------------- lowering ------------------------------- *)

\* ViCharSearch: direction, target and inclusivity of an f/F/t/T motion
CharSearch(forward, c, inclusive) ==
    [forward |-> forward, c |-> c, inclusive |-> inclusive]

SearchOf(motion) == CharSearch(motion.kind = "f", motion.c, TRUE)

\* the move-until-character edit of a char search
MoveUntil(search, select) ==
    [Node(IF search.forward THEN "MoveRightUntil" ELSE "MoveLeftUntil")
        EXCEPT !.c = search.c, !.flag = select]

\* the move edit of a motion
MotionEdit(motion, select) ==
    IF motion.kind \in FindMotions THEN MoveUntil(SearchOf(motion), select)
    ELSE [Node(CASE motion.kind = "b" -> "MoveWordLeft"
                 [] motion.kind = "B" -> "MoveBigWordLeft"
                 [] motion.kind = "e" -> "MoveWordRightEnd"
                 [] motion.kind = "E" -> "MoveBigWordRightEnd"
                 [] motion.kind = "$" -> "MoveToLineEnd"
                 [] OTHER -> "SelectLine") EXCEPT !.flag = select]

OrOne(n) == IF n = <<>> THEN 1 ELSE n[1]

\* the repeat count of a command: its own count times its motion's count
total_multiplier(r) == OrOne(r.multiplier) * OrOne(r.count)

Counted(r, events) == [Multiple(events) EXCEPT !.n = total_multiplier(r)]

\* ParsedViSequence::to_reedline_event: the event(s) of a complete command,
\* and the char-search memory it leaves
to_reedline_event(r, search) ==
    IF r.command \in Operators
    THEN [event |-> Counted(r, <<Edit(<<MotionEdit(r.motion, TRUE),
                                        Node("CutSelection")>>)>>),
          search |-> IF r.motion.kind \in FindMotions
                     THEN <<SearchOf(r.motion)>> ELSE search]
    ELSE IF r.command = "i"
    THEN [event |-> Counted(r, <<Node("Repaint")>>), search |-> search]
    ELSE IF r.command = "I"
    THEN [event |-> Counted(r, <<Edit(<<Node("MoveToLineNonBlankStart")>>),
                                 Node("Repaint")>>),
          search |-> search]
    ELSE IF r.command \in RepeatSearchCommands
    THEN [event |-> IF search = <<>> THEN RNone
                    ELSE Counted(r, <<Edit(<<MoveUntil(search[1], FALSE)>>)>>),
          search |-> search]
    ELSE [event |-> Counted(r, <<Edit(<<MotionEdit(r.motion, FALSE)>>)>>),
          search |-> IF r.motion.kind \in FindMotions
                     THEN <<SearchOf(r.motion)>> ELSE search]

(* --------------------------- the dispatcher --------------------------- *)

\* Vi::default, Vi::new: the state after construction
Init ==
    /\ mode = "Insert"
    /\ cache = <<>>
    /\ seq_completed = TRUE
    /\ last_char_search = <<>>
    /\ normal_keybindings \in NormalTables
    /\ insert_keybindings \in InsertTables
    /\ ev = RawEvent("")
    /\ out = RNone
    /\ arm = "new"
    /\ res = ""
    /\ pre = [mode |-> "Insert", cache |-> <<>>, seq_completed |-> TRUE,
              last_char_search |-> <<>>]

\* routes_to_parser with the binding looked at first, pending or not
routes_to_parser_binding_first(completed, binding, modifier) ==
    binding = <<>> /\ (modifier = NONE \/ modifier = SHIFT)

\* whether a Normal-mode character goes to the cache and the parser
routes_to_parser(completed, binding, modifier) ==
    \/ ~completed
    \/ binding = <<>> /\ (modifier = NONE \/ modifier = SHIFT)

\* shift_cased with its two branches swapped
shift_cased_swapped(modifier, c) ==
    IF modifier = SHIFT THEN c ELSE to_ascii_uppercase(c)

\* the character pushed to the cache
shift_cased(modifier, c) ==
    IF modifier = SHIFT THEN to_ascii_uppercase(c) ELSE c

\* the flag after the parse of the cache
seq_completed_after(r) == is_complete(r)

\* cache_after without the clear of a complete sequence
cache_after_kept_on_complete(r, pushed) ==
    IF ~is_valid(r) THEN <<>> ELSE pushed

\* cache_after without the clear of an invalid sequence
cache_after_kept_on_invalid(r, pushed) ==
    IF is_valid(r) /\ is_complete(r) THEN <<>> ELSE pushed

\* the cache after the parse of `pushed`
cache_after(r, pushed) ==
    IF ~is_valid(r) THEN <<>>
    ELSE IF is_complete(r) THEN <<>>
    ELSE pushed

\* mode_after with every complete command entering Insert mode
mode_after_any_complete(r) ==
    IF is_valid(r) /\ is_complete(r) THEN "Insert" ELSE "Normal"

\* mode_after without the switch to Insert mode
mode_after_stays_normal(r) == "Normal"

\* the mode after the parse, in Normal mode
mode_after(r) ==
    IF is_valid(r) /\ is_complete(r) /\ enters_insert_mode(r) THEN "Insert"
    ELSE "Normal"

\* the event returned after the parse
event_after(r, search) ==
    IF ~is_valid(r) THEN RNone
    ELSE IF is_complete(r) THEN to_reedline_event(r, search).event
    ELSE RNone

\* search_after with the memory never written
search_after_unwritten(r, search) == search

\* search_after with the memory emptied by a parse that completes nothing
search_after_reset(r, search) ==
    IF is_valid(r) /\ is_complete(r) THEN to_reedline_event(r, search).search
    ELSE <<>>

\* the char-search memory after the parse
search_after(r, search) ==
    IF is_valid(r) /\ is_complete(r) THEN to_reedline_event(r, search).search
    ELSE search

\* (ViMode::Normal, modifier, KeyCode::Char(c))
NormalChar ==
    /\ pre' = Fields
    /\ mode = "Normal"
    /\ \E key \in CharKeys :
          LET modifier == key[1]
              ch == key[2]
              c == to_ascii_lowercase(ch)
              binding == find_binding(normal_keybindings, modifier, Char(c))
              pushed == Append(cache, shift_cased(modifier, c))
              r == parse(pushed)
          IN  /\ ev' = Key(modifier, Char(ch))
              /\ IF routes_to_parser(seq_completed, binding, modifier)
                 THEN /\ Len(cache) < MaxCache
                      /\ cache' = cache_after(r, pushed)
                      /\ seq_completed' = seq_completed_after(r)
                      /\ mode' = mode_after(r)
                      /\ last_char_search' = search_after(r, last_char_search)
                      /\ out' = event_after(r, last_char_search)
                      /\ arm' = "parser"
                      /\ res' = r.class
                 ELSE /\ out' = IF binding # <<>> THEN binding[1] ELSE RNone
                      /\ arm' = IF binding # <<>> THEN "binding" ELSE "none"
                      /\ res' = ""
                      /\ UNCHANGED <<cache, seq_completed, mode, last_char_search>>
    /\ UNCHANGED <<normal_keybindings, insert_keybindings>>

\* the character the Insert table is searched for
insert_lookup_char(modifier, ch) ==
    IF modifier = NONE THEN ch ELSE to_ascii_lowercase(ch)

\* the event of an Insert-mode character no binding matches
insert_fallback(modifier, c) ==
    IF \/ modifier = NONE
       \/ modifier = SHIFT
       \/ modifier = CONTROL \cup ALT
       \/ modifier = CONTROL \cup ALT \cup SHIFT
    THEN Edit(<<InsertChar(IF modifier = SHIFT THEN to_ascii_uppercase(c) ELSE c)>>)
    ELSE RNone

\* (ViMode::Insert, modifier, KeyCode::Char(c))
InsertCharKey ==
    /\ pre' = Fields
    /\ mode = "Insert"
    /\ \E key \in CharKeys :
          LET modifier == key[1]
              ch == key[2]
              c == insert_lookup_char(modifier, ch)
              binding == find_binding(insert_keybindings, modifier, Char(c))
          IN  /\ ev' = Key(modifier, Char(ch))
              /\ out' = IF binding # <<>> THEN binding[1]
                        ELSE insert_fallback(modifier, c)
              /\ arm' = IF binding # <<>> THEN "insert_binding" ELSE "insert_char"
    /\ res' = ""
    /\ UNCHANGED <<mode, cache, seq_completed, last_char_search,
                   normal_keybindings, insert_keybindings>>

\* esc_event with the move left emitted from either mode
esc_event_always_left(m) ==
    Multiple(<<Node("Left"), Node("Esc"), Node("Repaint")>>)

\* the event a bare Escape returns
esc_event(m) ==
    Multiple(<<IF m = "Insert" THEN Node("Left") ELSE RNone,
               Node("Esc"), Node("Repaint")>>)

\* (_, KeyModifiers::NONE, KeyCode::Esc)
EscKey ==
    /\ pre' = Fields
    /\ ev' = Key(NONE, Esc)
    /\ cache' = <<>>
    /\ mode' = "Normal"
    /\ out' = esc_event(mode)
    /\ arm' = "esc"
    /\ res' = ""
    /\ UNCHANGED <<seq_completed, last_char_search, normal_keybindings,
                   insert_keybindings>>

\* EnterKey without the switch to Insert mode
EnterKey_mode_kept ==
    /\ pre' = Fields
    /\ ev' = Key(NONE, Enter)
    /\ out' = Node("Enter")
    /\ arm' = "enter"
    /\ res' = ""
    /\ UNCHANGED <<mode, cache, seq_completed, last_char_search,
                   normal_keybindings, insert_keybindings>>

\* (_, KeyModifiers::NONE, KeyCode::Enter)
EnterKey ==
    /\ pre' = Fields
    /\ ev' = Key(NONE, Enter)
    /\ mode' = "Insert"
    /\ out' = Node("Enter")
    /\ arm' = "enter"
    /\ res' = ""
    /\ UNCHANGED <<cache, seq_completed, last_char_search, normal_keybindings,
                   insert_keybindings>>

\* OtherKey with the Normal table searched in either mode
OtherKey_normal_table ==
    /\ pre' = Fields
    /\ \E k \in OtherKeys :
          LET binding == find_binding(normal_keybindings, k[1], k[2])
          IN  /\ ev' = Key(k[1], k[2])
              /\ out' = IF binding # <<>> THEN binding[1] ELSE RNone
    /\ arm' = "other"
    /\ res' = ""
    /\ UNCHANGED <<mode, cache, seq_completed, last_char_search,
                   normal_keybindings, insert_keybindings>>

\* (ViMode::Normal, _, _) and (ViMode::Insert, _, _)
OtherKey ==
    /\ pre' = Fields
    /\ \E k \in OtherKeys :
          LET table == IF mode = "Normal" THEN normal_keybindings
                       ELSE insert_keybindings
              binding == find_binding(table, k[1], k[2])
          IN  /\ ev' = Key(k[1], k[2])
              /\ out' = IF binding # <<>> THEN binding[1] ELSE RNone
    /\ arm' = "other"
    /\ res' = ""
    /\ UNCHANGED <<mode, cache, seq_completed, last_char_search,
                   normal_keybindings, insert_keybindings>>

\* Event::Mouse(_)
Mouse ==
    /\ pre' = Fields
    /\ ev' = RawEvent("Mouse")
    /\ out' = Node("Mouse")
    /\ arm' = "mouse"
    /\ res' = ""
    /\ UNCHANGED <<mode, cache, seq_completed, last_char_search,
                   normal_keybindings, insert_keybindings>>

\* ResizeEvent with width and height exchanged
ResizeEvent_swapped ==
    /\ pre' = Fields
    /\ \E size \in {<<1, 2>>, <<2, 1>>} :
          /\ ev' = Resize(size[1], size[2])
          /\ out' = RResize(size[2], size[1])
    /\ arm' = "resize"
    /\ res' = ""
    /\ UNCHANGED <<mode, cache, seq_completed, last_char_search,
                   normal_keybindings, insert_keybindings>>

\* the terminal sizes (width, height) delivered
ResizeSizes == {<<1, 2>>, <<2, 1>>}

\* Event::Resize(width, height)
ResizeEvent ==
    /\ pre' = Fields
    /\ \E size \in ResizeSizes :
          /\ ev' = Resize(size[1], size[2])
          /\ out' = RResize(size[1], size[2])
    /\ arm' = "resize"
    /\ res' = ""
    /\ UNCHANGED <<mode, cache, seq_completed, last_char_search,
                   normal_keybindings, insert_keybindings>>

\* Event::FocusGained and Event::FocusLost
Focus ==
    /\ pre' = Fields
    /\ \E kind \in {"FocusGained", "FocusLost"} : ev' = RawEvent(kind)
    /\ out' = RNone
    /\ arm' = "focus"
    /\ res' = ""
    /\ UNCHANGED <<mode, cache, seq_completed, last_char_search,
                   normal_keybindings, insert_keybindings>>

\* the texts pasted
PasteBodies == {<<>>, <<"a", "\r", "\n">>, <<"\r", "a">>}

\* str::replace("\r\n", "\n")
RECURSIVE replace_crlf(_)
replace_crlf(s) ==
    IF s = <<>> THEN <<>>
    ELSE IF Len(s) >= 2 /\ s[1] = "\r" /\ s[2] = "\n"
    THEN <<"\n">> \o replace_crlf(SubSeq(s, 3, Len(s)))
    ELSE <<s[1]>> \o replace_crlf(Tail(s))

\* str::replace('\r', "\n")
replace_cr(s) == [k \in DOMAIN s |-> IF s[k] = "\r" THEN "\n" ELSE s[k]]

\* normalize_paste with the two replacements in the other order
normalize_paste_cr_first(body) == replace_crlf(replace_cr(body))

\* body.replace("\r\n", "\n").replace('\r', "\n")
normalize_paste(body) == replace_cr(replace_crlf(body))

\* Event::Paste(body)
PasteEvent ==
    /\ pre' = Fields
    /\ \E body \in PasteBodies :
          /\ ev' = Paste(body)
          /\ out' = Edit(<<InsertString(normalize_paste(body))>>)
    /\ arm' = "paste"
    /\ res' = ""
    /\ UNCHANGED <<mode, cache, seq_completed, last_char_search,
                   normal_keybindings, insert_keybindings>>

\* one call of Vi::parse_event
Next ==
    \/ NormalChar
    \/ InsertCharKey
    \/ EscKey
    \/ EnterKey
    \/ OtherKey
    \/ Mouse
    \/ ResizeEvent
    \/ Focus
    \/ PasteEvent

Spec == Init /\ [][Next]_vars

(* ---------------- pasted texts, every one up to a length -------------- *)

\* The longest pasted text of SpecPaste.
MaxPaste == 4

PasteChars == {"\r", "\n", "a"}
AllPasteBodies == UNION {[1..k -> PasteChars] : k \in 0..MaxPaste}

\* Event::Paste(body), for every text of AllPasteBodies
PasteAnyText ==
    /\ pre' = Fields
    /\ \E body \in AllPasteBodies :
          /\ ev' = Paste(body)
          /\ out' = Edit(<<InsertString(normalize_paste(body))>>)
    /\ arm' = "paste"
    /\ res' = ""
    /\ UNCHANGED <<mode, cache, seq_completed, last_char_search,
                   normal_keybindings, insert_keybindings>>

\* pastes in either mode
NextPaste ==
    \/ PasteAnyText
    \/ EscKey
    \/ EnterKey

SpecPaste == Init /\ [][NextPaste]_vars

(* ------------------------------ claims -------------------------------- *)

\* a parse_event call has been made
Called == arm # "new"

\* the last event was a character key
CharKeyEvent == ev.kind = "Key" /\ ev.code.kind = "Char"

\* the character of the last key, lower-cased as the Normal arm does first
LowerChar == to_ascii_lowercase(ev.code.c)

\* the Normal table's binding, if any, the Normal arm finds for the last key
NormalBinding == find_binding(normal_keybindings, ev.modifiers, Char(LowerChar))

\* the cache the parser saw in the last call, had the call gone to it
Typed == Append(pre.cache, shift_cased(ev.modifiers, LowerChar))

\* C1 (for the keys whose character lower-casing leaves as delivered, such as
\* the claim's '$' and 'e'): in Normal mode with an empty cache, a character
\* key (M, c) the Normal table binds to E returns exactly E, the parser is
\* not invoked, and mode, cache, flag and char-search memory are unchanged.
C1_BoundKeyEmitsBinding ==
    (/\ Called
     /\ pre.mode = "Normal"
     /\ pre.cache = <<>>
     /\ CharKeyEvent
     /\ ev.code.c = LowerChar
     /\ KeyCombination(ev.modifiers, ev.code) \in DOMAIN normal_keybindings)
    => /\ out = normal_keybindings[KeyCombination(ev.modifiers, ev.code)]
       /\ res = ""
       /\ Fields = pre

\* C2: while a Normal-mode sequence is pending (the cache is not empty), every
\* character key, bound or not and whatever its modifiers, is appended to the
\* cache and parsed; the event returned is the parser's, never the binding.
C2_PendingRoutesToParser ==
    (Called /\ pre.mode = "Normal" /\ pre.cache # <<>> /\ CharKeyEvent)
    => /\ arm = "parser"
       /\ res = parse(Typed).class
       /\ cache = (IF res = "Incomplete" THEN Typed ELSE <<>>)
       /\ out = (IF res = "Complete"
                 THEN to_reedline_event(parse(Typed), pre.last_char_search).event
                 ELSE RNone)
       /\ NormalBinding # <<>> => out # NormalBinding[1]

\* C2's case: 'f' is pending and shift+'$', which the table binds, arrives:
\* the call returns the move to the next '$'.
C2_Witness ==
    /\ pre.mode = "Normal"
    /\ pre.cache = <<"f">>
    /\ ev = Key(SHIFT, Char("$"))
    /\ NormalBinding = <<Node("CtrlD")>>
    /\ out = [Multiple(<<Edit(<<[Node("MoveRightUntil") EXCEPT !.c = "$"]>>)>>)
                EXCEPT !.n = 1]

\* C3: whenever the cache is empty, the sequence-completed flag is true.
C3_EmptyCacheMeansCompleted == cache = <<>> => seq_completed

\* C4: the cache is non-empty only while the flag is false, and a call whose
\* parse ends complete or invalid leaves the cache empty.
C4_CacheOnlyWhilePending ==
    /\ cache # <<>> => ~seq_completed
    /\ (Called /\ pre.mode = "Normal" /\ CharKeyEvent /\ arm = "parser"
        /\ parse(Typed).class \in {"Complete", "Invalid"})
       => cache = <<>>

\* C4's case: a pending sequence has just been completed.
C4_Witness ==
    /\ arm = "parser"
    /\ pre.cache = <<"d", "f">>
    /\ res = "Complete"
    /\ cache = <<>>
    /\ seq_completed

\* C5 as stated: Escape clears the cache and leaves Normal mode; from Insert
\* the event is [move-left, escape, repaint], from Normal [escape, repaint].
C5_EscapeLists ==
    (Called /\ ev = Key(NONE, Esc))
    => /\ cache = <<>>
       /\ mode = "Normal"
       /\ pre.mode = "Insert"
          => out = Multiple(<<Node("Left"), Node("Esc"), Node("Repaint")>>)
       /\ pre.mode = "Normal"
          => out = Multiple(<<Node("Esc"), Node("Repaint")>>)

\* C5 amended: Escape clears the cache and leaves Normal mode; from Insert the
\* event is [move-left, escape, repaint], from Normal [no-op, escape, repaint].
C5_EscapeListsWithNoOp ==
    (Called /\ ev = Key(NONE, Esc))
    => /\ cache = <<>>
       /\ mode = "Normal"
       /\ pre.mode = "Insert"
          => out = Multiple(<<Node("Left"), Node("Esc"), Node("Repaint")>>)
       /\ pre.mode = "Normal"
          => out = Multiple(<<RNone, Node("Esc"), Node("Repaint")>>)

\* C5's case: Escape pressed in Normal mode while a sequence is pending.
C5_Witness ==
    /\ ev = Key(NONE, Esc)
    /\ pre.mode = "Normal"
    /\ pre.cache = <<"d">>
    /\ cache = <<>>
    /\ out.sub[1] = RNone

\* C6: Enter sets the mode to Insert and returns exactly submit-line, whatever
\* the mode was and whether or not a sequence is pending.
C6_EnterSubmits ==
    (Called /\ ev = Key(NONE, Enter)) => mode = "Insert" /\ out = Node("Enter")

\* C6's case: Enter pressed in Normal mode while a sequence is pending.
C6_Witness ==
    /\ ev = Key(NONE, Enter)
    /\ pre.mode = "Normal"
    /\ pre.cache = <<"d">>
    /\ mode = "Insert"

\* C7: a Normal-mode character that makes the cache a sequence that can never
\* form a command leaves the cache empty and returns no-op, also right after
\* another such character.
C7_InvalidResets ==
    (Called /\ pre.mode = "Normal" /\ CharKeyEvent /\ arm = "parser"
     /\ ~is_valid(parse(Typed)))
    => cache = <<>> /\ out = RNone

\* C7's case: an operator followed by an invalid successor, typed right after
\* an invalid character.
C7_Witness ==
    /\ pre.mode = "Normal"
    /\ pre.cache = <<"d">>
    /\ ev = Key(NONE, Char("q"))
    /\ arm = "parser"
    /\ cache = <<>>
    /\ out = RNone

\* C8 as stated: in Normal mode with an empty cache, an unmodified character
\* c with no binding: if c starts a valid command the cache becomes [c] and
\* the event is no-op, otherwise the event is no-op and the cache stays empty.
C8_FirstCharacter ==
    (/\ Called
     /\ pre.mode = "Normal"
     /\ pre.cache = <<>>
     /\ CharKeyEvent
     /\ ev.modifiers = NONE
     /\ NormalBinding = <<>>)
    => IF is_valid(parse(<<ev.code.c>>))
       THEN cache = <<ev.code.c>> /\ out = RNone
       ELSE cache = <<>> /\ out = RNone

\* C8 amended: with c' the lower-cased c: if c' alone is an incomplete command
\* the cache becomes [c'] and the event is no-op; if c' alone is a complete
\* command the cache stays empty and the event is that command's lowering;
\* otherwise the event is no-op and the cache stays empty.
C8_FirstCharacterByClass ==
    (/\ Called
     /\ pre.mode = "Normal"
     /\ pre.cache = <<>>
     /\ CharKeyEvent
     /\ ev.modifiers = NONE
     /\ NormalBinding = <<>>)
    => CASE parse(<<LowerChar>>).class = "Incomplete"
              -> cache = <<LowerChar>> /\ out = RNone
         [] parse(<<LowerChar>>).class = "Complete"
              -> /\ cache = <<>>
                 /\ out = to_reedline_event(parse(<<LowerChar>>),
                                            pre.last_char_search).event
         [] OTHER -> cache = <<>> /\ out = RNone

\* C8's case: an unbound 'b', a complete command by itself, is typed first.
C8_Witness ==
    /\ pre.mode = "Normal"
    /\ pre.cache = <<>>
    /\ ev = Key(NONE, Char("b"))
    /\ NormalBinding = <<>>
    /\ cache = <<>>
    /\ out = [Multiple(<<Edit(<<Node("MoveWordLeft")>>)>>) EXCEPT !.n = 1]

\* C9: the mode starts as Insert; it goes from Insert to Normal only in a call
\* that handles a bare Escape, and from Normal to Insert only in a call that
\* handles a bare Enter or completes an insert-entering command.
C9_ModeTransitions ==
    /\ ~Called => mode = "Insert"
    /\ (Called /\ pre.mode = "Insert" /\ mode = "Normal") => ev = Key(NONE, Esc)
    /\ (Called /\ pre.mode = "Normal" /\ mode = "Insert")
       => \/ ev = Key(NONE, Enter)
          \/ /\ CharKeyEvent
             /\ arm = "parser"
             /\ is_complete(parse(Typed))
             /\ enters_insert_mode(parse(Typed))

\* C9's case: a completed insert-entering command has switched to Insert.
C9_Witness ==
    /\ pre.mode = "Normal"
    /\ mode = "Insert"
    /\ arm = "parser"
    /\ ev = Key(SHIFT, Char("I"))

\* the character the claim has the Insert table searched for
C10_LookupChar ==
    IF ev.modifiers = NONE THEN ev.code.c ELSE to_ascii_lowercase(ev.code.c)

\* C10: in Insert mode a character key (M, c) returns the Insert table's
\* binding of (M, c'), c' being c when M is none and lower-cased c otherwise;
\* else, for M one of none, shift, ctrl+alt, ctrl+alt+shift, one edit that
\* inserts the character, upper-cased when Shift is held; else no-op; and
\* mode, cache, flag and char-search memory are unchanged.
C10_InsertCharacter ==
    (Called /\ pre.mode = "Insert" /\ CharKeyEvent)
    => /\ Fields = pre
       /\ out =
            IF KeyCombination(ev.modifiers, Char(C10_LookupChar))
                   \in DOMAIN insert_keybindings
            THEN insert_keybindings[KeyCombination(ev.modifiers,
                                                   Char(C10_LookupChar))]
            ELSE IF ev.modifiers \in {NONE, SHIFT, CONTROL \cup ALT,
                                      CONTROL \cup ALT \cup SHIFT}
            THEN Edit(<<InsertChar(IF "SHIFT" \in ev.modifiers
                                   THEN to_ascii_uppercase(ev.code.c)
                                   ELSE C10_LookupChar)>>)
            ELSE RNone

\* the character of the last key, upper-cased with Shift and lower-cased
\* without
ShiftCasedChar ==
    IF ev.modifiers = SHIFT THEN to_ascii_uppercase(LowerChar) ELSE LowerChar

\* the event of one move to the next x, the target included
MoveToNext(x) ==
    [Multiple(<<Edit(<<[Node("MoveRightUntil") EXCEPT !.c = x]>>)>>)
        EXCEPT !.n = 1]

\* C11: in Normal mode with nothing pending and 'f' unbound, 'f' returns
\* no-op and leaves the cache [f]; the next bare or shifted character x
\* returns one inclusive forward move to x, empties the cache and sets the
\* char-search memory to (forward, x, inclusive); an unbound ';' typed with
\* nothing pending returns no-op when the memory is empty and else the move
\* event of the memory, which it leaves unchanged.
C11_FindThenRepeat ==
    /\ (/\ Called
        /\ pre.mode = "Normal"
        /\ pre.cache = <<>>
        /\ ev = Key(NONE, Char("f"))
        /\ NormalBinding = <<>>)
       => out = RNone /\ cache = <<"f">>
    /\ (/\ Called
        /\ pre.mode = "Normal"
        /\ pre.cache = <<"f">>
        /\ CharKeyEvent
        /\ ev.modifiers \in {NONE, SHIFT})
       => /\ out = MoveToNext(ShiftCasedChar)
          /\ cache = <<>>
          /\ last_char_search = <<CharSearch(TRUE, ShiftCasedChar, TRUE)>>
    /\ (/\ Called
        /\ pre.mode = "Normal"
        /\ pre.cache = <<>>
        /\ ev = Key(NONE, Char(";"))
        /\ NormalBinding = <<>>)
       => /\ last_char_search = pre.last_char_search
          /\ out = IF pre.last_char_search = <<>> THEN RNone
                   ELSE [Multiple(<<Edit(<<MoveUntil(pre.last_char_search[1],
                                                     FALSE)>>)>>)
                            EXCEPT !.n = 1]

\* C11's case: ';' typed after 'f', 'b' has returned the move to the next 'b'
\* again.
C11_Witness ==
    /\ pre.mode = "Normal"
    /\ pre.cache = <<>>
    /\ pre.last_char_search = <<CharSearch(TRUE, "b", TRUE)>>
    /\ ev = Key(NONE, Char(";"))
    /\ out = MoveToNext("b")
    /\ last_char_search = pre.last_char_search

\* C12: a pointer event returns the mouse notification, resize(w, h) the
\* resize notification of the same (w, h), focus gained and lost no-op, and
\* paste one insert-string edit; none of them changes mode, cache, flag or
\* char-search memory, also while a sequence is pending.
C12_NonKeyEvents ==
    (Called /\ ev.kind \in {"Mouse", "Resize", "FocusGained", "FocusLost", "Paste"})
    => /\ Fields = pre
       /\ ev.kind = "Mouse" => out = Node("Mouse")
       /\ ev.kind = "Resize"
          => out = [Node("Resize") EXCEPT !.w = ev.width, !.h = ev.height]
       /\ ev.kind \in {"FocusGained", "FocusLost"} => out = RNone
       /\ ev.kind = "Paste"
          => /\ out.tag = "Edit"
             /\ Len(out.sub) = 1
             /\ out.sub[1].tag = "InsertString"

\* C12's case: a resize to 1 x 2 arrives while 'd' is pending.
C12_Witness ==
    /\ pre.mode = "Normal"
    /\ pre.cache = <<"d">>
    /\ ev = Resize(1, 2)
    /\ out.w = 1
    /\ out.h = 2
    /\ cache = <<"d">>
    /\ ~seq_completed

\* one pass over a text: a CR and the LF after it become one LF, any other CR
\* becomes LF, every other character stays
RECURSIVE C13_OnePass(_)
C13_OnePass(s) ==
    IF s = <<>> THEN <<>>
    ELSE IF s[1] = "\r"
    THEN <<"\n">> \o C13_OnePass(IF Len(s) >= 2 /\ s[2] = "\n"
                                 THEN SubSeq(s, 3, Len(s)) ELSE Tail(s))
    ELSE <<s[1]>> \o C13_OnePass(Tail(s))

\* the number of CR, LF pairs of a text
C13_Pairs(s) == Cardinality({k \in 1..(Len(s) - 1) : s[k] = "\r" /\ s[k + 1] = "\n"})

\* C13: the text of the insert-string edit of a paste holds no carriage
\* return; it is the pasted text with every CR LF pair replaced by one LF and
\* every other CR by LF, the other characters in their order, so it is
\* shorter than the pasted text by the number of pairs.
C13_PasteNormalized ==
    (Called /\ ev.kind = "Paste")
    => /\ \A k \in DOMAIN out.sub[1].text : out.sub[1].text[k] # "\r"
       /\ out.sub[1].text = C13_OnePass(ev.body)
       /\ Len(out.sub[1].text) = Len(ev.body) - C13_Pairs(ev.body)

\* C13's case: a bare CR right before a CR LF pair.
C13_Witness ==
    /\ ev = Paste(<<"\r", "\r", "\n", "a">>)
    /\ out.sub[1].text = <<"\n", "\n", "a">>

\* C14: a Normal-mode character that completes the sequence leaves the cache
\* empty and the flag true, sets the mode to Insert exactly when the command
\* enters insert mode, and returns the lowering of the command.
C14_CompleteStep ==
    (Called /\ pre.mode = "Normal" /\ CharKeyEvent /\ arm = "parser"
     /\ is_complete(parse(Typed)))
    => /\ cache = <<>>
       /\ seq_completed
       /\ mode = (IF enters_insert_mode(parse(Typed)) THEN "Insert" ELSE "Normal")
       /\ out = to_reedline_event(parse(Typed), pre.last_char_search).event

\* C14's case: 'd' is pending and 'b' completes the delete, in Normal mode.
C14_Witness ==
    /\ pre.mode = "Normal"
    /\ pre.cache = <<"d">>
    /\ ev = Key(NONE, Char("b"))
    /\ res = "Complete"
    /\ mode = "Normal"
    /\ cache = <<>>
    /\ seq_completed

\* C15: a key that is no character, no bare Escape and no bare Enter returns
\* the event the table of the current mode binds to exactly its modifiers and
\* code, or no-op; mode, cache, flag and char-search memory are unchanged,
\* also while a sequence is pending.
C15_OtherKeys ==
    (/\ Called
     /\ ev.kind = "Key"
     /\ ev.code.kind # "Char"
     /\ ev # Key(NONE, Esc)
     /\ ev # Key(NONE, Enter))
    => /\ Fields = pre
       /\ LET table == IF pre.mode = "Normal" THEN normal_keybindings
                       ELSE insert_keybindings
              combo == KeyCombination(ev.modifiers, ev.code)
          IN  out = IF combo \in DOMAIN table THEN table[combo] ELSE RNone

\* C15's case: shift+Enter, bound in the Normal table only, while 'd' is
\* pending.
C15_Witness ==
    /\ pre.mode = "Normal"
    /\ pre.cache = <<"d">>
    /\ ev = Key(SHIFT, Enter)
    /\ out = Node("Submit")
    /\ cache = <<"d">>

\* the character C16 has pushed for the last key
C16_Char ==
    IF "SHIFT" \in ev.modifiers THEN to_ascii_uppercase(ev.code.c)
    ELSE to_ascii_lowercase(ev.code.c)

\* C16: the character a Normal-mode key appends to the cache is the upper
\* case of the typed character when Shift is held and its lower case
\* otherwise, whatever the case delivered and whatever else is held: the
\* parse, the cache, the event and the char-search memory of the call are
\* those of the cache with that character appended.
C16_PushedShiftCased ==
    (Called /\ pre.mode = "Normal" /\ CharKeyEvent /\ arm = "parser")
    => LET r == parse(Append(pre.cache, C16_Char))
       IN  /\ res = r.class
           /\ cache = (IF r.class = "Incomplete"
                       THEN Append(pre.cache, C16_Char) ELSE <<>>)
           /\ r.class = "Complete"
              => /\ out = to_reedline_event(r, pre.last_char_search).event
                 /\ last_char_search
                       = to_reedline_event(r, pre.last_char_search).search

\* C17: the call after a bare Escape, for a character key, returns the event
\* and leaves the mode that an interpreter with the same tables and memory,
\* in Normal mode with an empty cache and the flag true, returns and leaves.
C17_EscapeAborts ==
    [][(/\ Called
        /\ ev = Key(NONE, Esc)
        /\ ev'.kind = "Key"
        /\ ev'.code.kind = "Char")
       => LET m == ev'.modifiers
              c == to_ascii_lowercase(ev'.code.c)
              binding == find_binding(normal_keybindings, m, Char(c))
              r == parse(<<shift_cased(m, c)>>)
          IN  IF routes_to_parser(TRUE, binding, m)
              THEN /\ out' = event_after(r, last_char_search)
                   /\ mode' = mode_after(r)
              ELSE /\ out' = IF binding # <<>> THEN binding[1] ELSE RNone
                   /\ mode' = "Normal"]_vars

\* C18: the char-search memory changes only in a call where a Normal-mode
\* character completes a sequence, and a memory that holds a value is never
\* left empty.
C18_MemoryWrites ==
    /\ (Called /\ last_char_search # pre.last_char_search)
       => /\ pre.mode = "Normal"
          /\ CharKeyEvent
          /\ arm = "parser"
          /\ is_complete(parse(Typed))
    /\ pre.last_char_search # <<>> => last_char_search # <<>>

\* C18's case: a backward find to '$' has overwritten the memory of a
\* forward find to 'b'.
C18_Witness ==
    /\ pre.last_char_search = <<CharSearch(TRUE, "b", TRUE)>>
    /\ pre.cache = <<"F">>
    /\ arm = "parser"
    /\ last_char_search = <<CharSearch(FALSE, "$", TRUE)>>

\* C19: whenever the mode is Insert the cache is empty.
C19_InsertCacheEmpty == mode = "Insert" => cache = <<>>

====
